---------------------------- MODULE Spec2Model ----------------------------
(***************************************************************************)
(* The lending core of the library application: the book catalog, the     *)
(* transaction ledger and the request handlers of src/app.py that read     *)
(* and write them, plus the bulk import of src/import_books.py.            *)
(*                                                                         *)
(* A request is one atomic action in Spec (one handler, one commit).       *)
(* SpecConc splits the two issue handlers at their database accesses so    *)
(* that two requests can interleave.  SpecFine runs one loan over a clock  *)
(* long enough for a late return.                                          *)
(***************************************************************************)
EXTENDS Integers, Sequences, FiniteSets, TLC

(* ------------------------------ bounds -------------------------------- *)
MaxBooks == 2
MaxCopies == 2
MaxTrans == 2
MaxRows == 1
MaxDay == 17
TicksPerDay == 2

(* ------------------------- program constants -------------------------- *)
DUE_DAYS == 14
FINE_PER_DAY == 5

(* ------------------------------ universe ------------------------------ *)
\* Rows of the users table: user 1 has role "admin", the others "user".
UserIds == {1, 2, 3}

\* users.role
Role(u) == IF u = 1 THEN "admin" ELSE "user"

\* current_user of a request without a session (flask_login's anonymous user)
Anonymous == 0

Principals == UserIds \cup {Anonymous}

\* (title, author) of a book as one key; "" stands for a missing title or author
Titles == {"t1", "t2"}

\* the form fields title and author of add_book and edit_book
TitleInputs == {"", "t1"}

\* the columns title and author of a row of the import file
CsvTitles == Titles \cup {""}

\* the form field "copies": absent/empty, not a number, or a number
CopiesInputs ==
    {[kind |-> "empty", n |-> 0], [kind |-> "bad", n |-> 0]}
        \cup {[kind |-> "int", n |-> k] : k \in 0 .. MaxCopies}

Methods == {"GET", "POST"}

\* SQL NULL in a date column
NULL == -1

(* ------------------------------ responses ----------------------------- *)
NoResponse == "none"
LoginRedirect == "302 login"
Forbidden == "403"
NotFound == "404"
IntegrityError == "500 IntegrityError"
PageRendered == "200 page"
TitleAuthorRequired == "Title and author are required."
BookAdded == "Book added successfully."
BookUpdated == "Book updated."
CannotDelete == "Cannot delete book: active issued copies exist."
BookDeleted == "Book deleted."
NoCopies == "No copies available."
NotAvailable == "This book is not available."
AlreadyIssued == "You already have this book issued."
IssueConfirmation == "302 issue_confirmation"
InvalidUserOrBook == "Invalid user or book."
BookIssuedTo == "Book issued to user."
BookReturned == "Book returned successfully."
ImportDone == "Successfully imported books into the database."

(* -------------------------------- state -------------------------------- *)
VARIABLES
    books,          \* table book: id -> [title, total_copies, available_copies]
    transactions,   \* table transactions: row id = index in the sequence
    now,            \* datetime.utcnow(), in ticks
    response,       \* what the last request answered (flash message or HTTP status)
    req,            \* requests in flight (SpecConc): worker -> its position and locals
    users,          \* table users: id -> [username, email, password_hash, active]
    sessions        \* the ids of the users that hold a login session

\* the account side of the state, which no catalog or ledger handler writes
accounts == <<users, sessions>>

vars == <<books, transactions, now, response, req, users, sessions>>

Workers == {1, 2}

IdleReq == [pc |-> "idle", kind |-> "none", actor |-> 0, user |-> 0, book |-> 0,
            seen |-> 0, outcome |-> NoResponse, tid |-> 0, staged |-> {}]

(* ------------------------------- helpers ------------------------------- *)
\* datetime.date(): the calendar day of an instant
Date(t) == t \div TicksPerDay

SetMax(S) == CHOOSE x \in S : \A y \in S : y <= x

\* the id SQLite gives the next row of table book (INTEGER PRIMARY KEY: max rowid + 1)
NextBookId(bs) == IF DOMAIN bs = {} THEN 1 ELSE SetMax(DOMAIN bs) + 1

TransIds == 1 .. Len(transactions)

\* BookTransaction.query.filter_by(book_id=b, status='issued').count()
IssuedCount(b) ==
    Cardinality({t \in TransIds : transactions[t].book_id = b
                                  /\ transactions[t].status = "issued"})

\* werkzeug's generate_password_hash: a salted one-way hash, which only
\* check_password_hash relates to the password again
PasswordHash(password) == <<"hash", password>>

\* the rows of table users at start: admin (row 1) and two users, every email in
\* lower case, every password "p"
InitialUser(u) ==
    [username |-> IF u = 1 THEN "admin" ELSE IF u = 2 THEN "u2" ELSE "u3",
     email |-> IF u = 1 THEN "admin@x" ELSE IF u = 2 THEN "u2@x" ELSE "u3@x",
     password_hash |-> PasswordHash("p"),
     active |-> TRUE]

Init ==
    /\ books = << >>
    /\ transactions = << >>
    /\ now = 0
    /\ response = NoResponse
    /\ req = [w \in Workers |-> IdleReq]
    /\ users = [u \in UserIds |-> InitialUser(u)]
    /\ sessions = {}

\* Answer a request that leaves the database as it is.
Reply(r) ==
    /\ response' = r
    /\ UNCHANGED <<books, transactions, now, req, accounts>>

(* ------------------------------- catalog ------------------------------- *)
\* (mutant) the number of the form is stored as it is
AddCopies_NoClamp(raw) == IF raw.kind = "int" THEN raw.n ELSE 1

\* add_book: copies = int(form 'copies' or 1), 1 when below 1 or not a number
AddCopies(raw) ==
    IF raw.kind = "bad" THEN 1
    ELSE LET c == IF raw.kind = "empty" THEN 1 ELSE raw.n
         IN  IF c < 1 THEN 1 ELSE c

AddBook(actor, title, raw) ==
    IF actor = Anonymous THEN Reply(LoginRedirect)
    ELSE IF Role(actor) # "admin" THEN Reply(Forbidden)
    ELSE IF title = "" THEN Reply(TitleAuthorRequired)
    ELSE /\ NextBookId(books) <= MaxBooks
         /\ books' = (NextBookId(books) :> [title |-> title,
                                            total_copies |-> AddCopies(raw),
                                            available_copies |-> AddCopies(raw)])
                     @@ books
         /\ response' = BookAdded
         /\ UNCHANGED <<transactions, now, req, accounts>>

\* edit_book: new_total = int(form 'copies' or book.total_copies), 1 when below 1,
\* book.total_copies when not a number
EditTotal(raw, book) ==
    IF raw.kind = "bad" THEN book.total_copies
    ELSE LET c == IF raw.kind = "empty" THEN book.total_copies ELSE raw.n
         IN  IF c < 1 THEN 1 ELSE c

\* (mutant) the difference applied without the floor at 0
EditAvailable_NoFloor(book, new_total) ==
    book.available_copies + (new_total - book.total_copies)

\* (mutant) the available copies are set to the new total
EditAvailable_Reset(book, new_total) == new_total

\* edit_book: available_copies = max(0, available_copies + diff)
EditAvailable(book, new_total) ==
    LET diff == new_total - book.total_copies
    IN  IF book.available_copies + diff < 0 THEN 0 ELSE book.available_copies + diff

EditBook(actor, b, title, raw) ==
    IF actor = Anonymous THEN Reply(LoginRedirect)
    ELSE IF Role(actor) # "admin" THEN Reply(Forbidden)
    ELSE IF b \notin DOMAIN books THEN Reply(NotFound)
    ELSE IF title = "" THEN Reply(TitleAuthorRequired)
    ELSE /\ books' = [books EXCEPT ![b] =
                        [title |-> title,
                         total_copies |-> EditTotal(raw, books[b]),
                         available_copies |-> EditAvailable(books[b], EditTotal(raw, books[b]))]]
         /\ response' = BookUpdated
         /\ UNCHANGED <<transactions, now, req, accounts>>

\* Book.transactions of book b: the rows the relationship loads
BookTransactions(b) == {t \in TransIds : transactions[t].book_id = b}

\* db.session.delete(book); db.session.commit().  The relationship Book.transactions
\* has no delete cascade, so the flush sets book_id of every row of the book to NULL;
\* the column is NOT NULL, so with any such row the commit raises IntegrityError
\* and the request's session is rolled back.
DeleteCommits(b) == BookTransactions(b) = {}

DeleteBook(actor, b) ==
    IF actor = Anonymous THEN Reply(LoginRedirect)
    ELSE IF Role(actor) # "admin" THEN Reply(Forbidden)
    ELSE IF b \notin DOMAIN books THEN Reply(NotFound)
    ELSE IF IssuedCount(b) # 0 THEN Reply(CannotDelete)
    ELSE IF ~DeleteCommits(b) THEN Reply(IntegrityError)
    ELSE /\ books' = [x \in DOMAIN books \ {b} |-> books[x]]
         /\ response' = BookDeleted
         /\ UNCHANGED <<transactions, now, req, accounts>>

(* ----------------------------- bulk import ----------------------------- *)
StatusInputs == {"issued", " Issued ", "available", "lost"}

\* row.get('status', '').strip().lower()
StripLower(s) == IF s = " Issued " THEN "issued" ELSE s

RowInputs == [title : CsvTitles, status : StatusInputs]

\* available_copies of an imported book; total_copies is 1 in every branch
ImportAvailable(status) == IF StripLower(status) = "issued" THEN 0 ELSE 1

\* the loop over the rows of the file: a row without title or author, or with a
\* (title, author) the table already has, is skipped
RECURSIVE ImportRows(_, _)
ImportRows(rows, bs) ==
    IF rows = << >> THEN bs
    ELSE LET row == Head(rows)
         IN  IF row.title = "" \/ \E x \in DOMAIN bs : bs[x].title = row.title
             THEN ImportRows(Tail(rows), bs)
             ELSE ImportRows(Tail(rows),
                             (NextBookId(bs) :> [title |-> row.title,
                                                 total_copies |-> 1,
                                                 available_copies |-> ImportAvailable(row.status)])
                             @@ bs)

ImportBooks(rows) ==
    /\ \A x \in DOMAIN ImportRows(rows, books) : x <= MaxBooks
    /\ books' = ImportRows(rows, books)
    /\ response' = ImportDone
    /\ UNCHANGED <<transactions, now, req, accounts>>

RowFiles == UNION {[1 .. n -> RowInputs] : n \in 0 .. MaxRows}

(* -------------------------------- ledger ------------------------------- *)
\* BookTransaction.query.filter_by(user_id=u, book_id=b, status='issued').first()
Existing(u, b) ==
    \E t \in TransIds : /\ transactions[t].user_id = u
                        /\ transactions[t].book_id = b
                        /\ transactions[t].status = "issued"

\* BookTransaction(user_id, book_id, due_date, status='issued'); issue_date is the
\* column default datetime.utcnow, read when the row is inserted; return_date NULL,
\* fine 0.0
NewTransaction(u, b, due, inserted) ==
    [user_id |-> u, book_id |-> b, issue_date |-> inserted, due_date |-> due,
     return_date |-> NULL, fine |-> 0, status |-> "issued"]

\* due_date = datetime.utcnow() + timedelta(days=DUE_DAYS)
DueDate(t) == t + DUE_DAYS * TicksPerDay

\* (mutant) the decrement takes two copies
IssueAvailable_Two(available) == available - 2

\* book.available_copies -= 1
IssueAvailable(available) == available - 1

\* (mutant) an issue re-opens the returned transaction of the user and the book
IssueCommit_Reopen(u, b, skew) ==
    LET old == {t \in TransIds : /\ transactions[t].user_id = u
                                 /\ transactions[t].book_id = b
                                 /\ transactions[t].status = "returned"}
    IN  /\ Len(transactions) < MaxTrans
        /\ transactions' =
              IF old = {}
              THEN Append(transactions, NewTransaction(u, b, DueDate(now), now + skew))
              ELSE [transactions EXCEPT ![CHOOSE t \in old : TRUE] =
                        NewTransaction(u, b, DueDate(now), now + skew)]
        /\ books' = [books EXCEPT ![b].available_copies = IssueAvailable(@)]
        /\ now' = now + skew
        /\ UNCHANGED <<req, accounts>>

\* the writes of both issue handlers: the row and the decrement, one commit.
\* skew is the time that passes between the handler's clock read and the insert's.
IssueCommit(u, b, skew) ==
    /\ Len(transactions) < MaxTrans
    /\ transactions' = Append(transactions, NewTransaction(u, b, DueDate(now), now + skew))
    /\ books' = [books EXCEPT ![b].available_copies = IssueAvailable(@)]
    /\ now' = now + skew
    /\ UNCHANGED <<req, accounts>>

\* issue_book_to_user: a logged-in user issues a book to themself
IssueSelf(actor, b, method, skew) ==
    IF actor = Anonymous THEN Reply(LoginRedirect)
    ELSE IF b \notin DOMAIN books THEN Reply(NotFound)
    ELSE IF method = "POST"
         THEN IF books[b].available_copies <= 0 THEN Reply(NoCopies)
              ELSE IF Existing(actor, b) THEN Reply(AlreadyIssued)
              ELSE IssueCommit(actor, b, skew) /\ response' = IssueConfirmation
         ELSE IF books[b].available_copies <= 0 THEN Reply(NotAvailable)
              ELSE Reply(PageRendered)

\* the form fields user_id and book_id: absent/empty, not a number, or a number
UserIdInputs ==
    {[kind |-> "empty", n |-> 0], [kind |-> "bad", n |-> 0]}
        \cup {[kind |-> "int", n |-> k] : k \in UserIds}

BookIdInputs ==
    {[kind |-> "empty", n |-> 0], [kind |-> "bad", n |-> 0]}
        \cup {[kind |-> "int", n |-> k] : k \in 1 .. MaxBooks}

\* int(form field or 0)
FormId(raw) == IF raw.kind = "int" THEN raw.n ELSE 0

InvalidId == "Invalid user or book ID."

\* issue_book: an admin issues a book to a user
IssueAdmin(actor, rawUser, rawBook, method, skew) ==
    IF actor = Anonymous THEN Reply(LoginRedirect)
    ELSE IF Role(actor) # "admin" THEN Reply(Forbidden)
    ELSE IF method = "POST"
         THEN IF rawUser.kind = "bad" \/ rawBook.kind = "bad" THEN Reply(InvalidId)
              ELSE IF FormId(rawUser) \notin DOMAIN users \/ FormId(rawBook) \notin DOMAIN books
                   THEN Reply(InvalidUserOrBook)
              ELSE IF books[FormId(rawBook)].available_copies <= 0 THEN Reply(NoCopies)
              ELSE IssueCommit(FormId(rawUser), FormId(rawBook), skew)
                   /\ response' = BookIssuedTo
         ELSE Reply(PageRendered)

\* (mutant) the fine counts the whole days elapsed between the two instants
Fine_Elapsed(return_date, due_date) ==
    IF return_date > due_date
    THEN ((return_date - due_date) \div TicksPerDay) * FINE_PER_DAY
    ELSE 0

\* (mutant) the fine is the difference of the dates, early returns included
Fine_Signed(return_date, due_date) ==
    (Date(return_date) - Date(due_date)) * FINE_PER_DAY

\* return_book: the fine of a return at return_date
Fine(return_date, due_date) ==
    IF Date(return_date) > Date(due_date)
    THEN (Date(return_date) - Date(due_date)) * FINE_PER_DAY
    ELSE 0

\* (mutant) the increment without the cap at total_copies
ReturnAvailable_NoCap(book) == book.available_copies + 1

\* return_book: available_copies = min(total_copies, available_copies + 1)
ReturnAvailable(book) ==
    IF book.available_copies + 1 < book.total_copies
    THEN book.available_copies + 1
    ELSE book.total_copies

\* (mutant) any logged-in user may return
MayReturn_Anyone(actor, tr) == TRUE

\* return_book: admin or owner can return
MayReturn(actor, tr) == Role(actor) = "admin" \/ tr.user_id = actor

AttributeError == "500 AttributeError"

ReturnBook(actor, t, method) ==
    IF actor = Anonymous THEN Reply(LoginRedirect)
    ELSE IF t \notin TransIds THEN Reply(NotFound)
    ELSE IF ~MayReturn(actor, transactions[t]) THEN Reply(Forbidden)
    ELSE IF method = "POST"
         THEN IF transactions[t].book_id \notin DOMAIN books THEN Reply(AttributeError)
              ELSE /\ transactions' =
                        [transactions EXCEPT ![t] =
                            [@ EXCEPT !.return_date = now,
                                      !.fine = Fine(now, transactions[t].due_date),
                                      !.status = "returned"]]
                   /\ books' = [books EXCEPT ![transactions[t].book_id].available_copies =
                                    ReturnAvailable(books[transactions[t].book_id])]
                   /\ response' = BookReturned
                   /\ UNCHANGED <<now, req, accounts>>
         ELSE Reply(PageRendered)

(* -------------------------------- clock -------------------------------- *)
\* the clock advances
Tick(limit) ==
    /\ now < limit
    /\ now' = now + 1
    /\ UNCHANGED <<books, transactions, response, req, accounts>>

\* the time that may pass inside one request
Skews(limit) == {k \in {0, 1} : now + k <= limit}

BookIds == 1 .. MaxBooks

\* The forms sent with a request of principal a to an admin-only handler: the
\* decorators answer anyone but an admin before the handler reads the form, so such
\* a request is sent with one form only.
AdminForms(a, forms, any) == IF a # Anonymous /\ Role(a) = "admin" THEN forms ELSE {any}

EmptyField == [kind |-> "empty", n |-> 0]

\* Every request of Spec is served at the same instant: no handler reads a date to
\* decide what it does, only to compute the fine (SpecFine lets the clock run).
Next ==
    \/ \E a \in Principals :
         \E f \in AdminForms(a, TitleInputs \X CopiesInputs, <<"", EmptyField>>) :
            AddBook(a, f[1], f[2])
    \/ \E a \in Principals, b \in BookIds :
         \E f \in AdminForms(a, TitleInputs \X CopiesInputs, <<"", EmptyField>>) :
            EditBook(a, b, f[1], f[2])
    \/ \E a \in Principals, b \in BookIds : DeleteBook(a, b)
    \/ \E rows \in RowFiles : ImportBooks(rows)
    \/ \E a \in Principals, b \in BookIds, m \in Methods : IssueSelf(a, b, m, 0)
    \/ \E a \in Principals, m \in Methods :
         \E f \in AdminForms(a, UserIdInputs \X BookIdInputs, <<EmptyField, EmptyField>>) :
            IssueAdmin(a, f[1], f[2], m, 0)
    \/ \E a \in Principals, t \in 1 .. MaxTrans, m \in Methods : ReturnBook(a, t, m)

Spec == Init /\ [][Next]_vars

(* ------------------------ one loan over time --------------------------- *)
\* the last instant of the clock of SpecFine
LastTick == MaxDay * TicksPerDay

\* admin_dashboard: the issued transactions whose due_date is before the clock read
Overdue(at) ==
    Cardinality({t \in TransIds : /\ transactions[t].status = "issued"
                                  /\ transactions[t].due_date < at})

\* the dashboard page with its overdue count
DashboardPage(overdue) ==
    IF overdue = 0 THEN "200 dashboard, overdue 0"
    ELSE IF overdue = 1 THEN "200 dashboard, overdue 1"
    ELSE "200 dashboard, overdue 2 or more"

\* (mutant) the dashboard stores the status "overdue" in the rows it counts
AdminDashboard_Marks(actor) ==
    IF actor = Anonymous THEN Reply(LoginRedirect)
    ELSE IF Role(actor) # "admin" THEN Reply(Forbidden)
    ELSE /\ transactions' =
              [t \in TransIds |->
                 IF transactions[t].status = "issued" /\ transactions[t].due_date < now
                 THEN [transactions[t] EXCEPT !.status = "overdue"]
                 ELSE transactions[t]]
         /\ response' = DashboardPage(Overdue(now))
         /\ UNCHANGED <<books, now, req, accounts>>

\* admin_dashboard: counts, the overdue loop and the page; no commit
AdminDashboard(actor) ==
    IF actor = Anonymous THEN Reply(LoginRedirect)
    ELSE IF Role(actor) # "admin" THEN Reply(Forbidden)
    ELSE Reply(DashboardPage(Overdue(now)))

\* One book with one copy, one loan of it by user 2, returned at any time by any
\* logged-in user, any number of times.
NextFine ==
    \/ books = << >> /\ AddBook(1, "t1", [kind |-> "int", n |-> 1])
    \/ transactions = << >> /\ \E k \in Skews(LastTick) : IssueSelf(2, 1, "POST", k)
    \/ \E a \in UserIds, m \in Methods : ReturnBook(a, 1, m)
    \/ Tick(LastTick)
    \/ \E a \in Principals : AdminDashboard(a)

SpecFine == Init /\ [][NextFine]_vars

(* ---------------------- two requests in flight ------------------------- *)
\* A worker serves one POST of a logged-in user (issue_book_to_user) or of the admin
\* (issue_book).  Each step is one database access of the handler; the session of a
\* request keeps the row it loaded, so the handler tests and decrements the
\* available_copies it read at its first step.

\* issue_book_to_user, line 322: Book.query.get_or_404(book_id)
BeginIssueSelf(w, actor, b) ==
    /\ req[w].pc = "idle"
    /\ IF b \notin DOMAIN books
       THEN /\ req' = [req EXCEPT ![w] = [IdleReq EXCEPT !.pc = "done", !.kind = "self",
                                             !.actor = actor, !.user = actor, !.book = b,
                                             !.outcome = NotFound]]
            /\ response' = NotFound
       ELSE /\ req' = [req EXCEPT ![w] = [IdleReq EXCEPT !.pc = "loaded", !.kind = "self",
                                             !.actor = actor, !.user = actor, !.book = b,
                                             !.seen = books[b].available_copies]]
            /\ UNCHANGED response
    /\ UNCHANGED <<books, transactions, now, accounts>>

\* issue_book, lines 379-383: User.query.get(user_id), Book.query.get(book_id)
BeginIssueAdmin(w, actor, u, b) ==
    /\ req[w].pc = "idle"
    /\ IF u \notin UserIds \/ b \notin DOMAIN books
       THEN /\ req' = [req EXCEPT ![w] = [IdleReq EXCEPT !.pc = "done", !.kind = "admin",
                                             !.actor = actor, !.user = u, !.book = b,
                                             !.outcome = InvalidUserOrBook]]
            /\ response' = InvalidUserOrBook
       ELSE /\ req' = [req EXCEPT ![w] = [IdleReq EXCEPT !.pc = "loaded", !.kind = "admin",
                                             !.actor = actor, !.user = u, !.book = b,
                                             !.seen = books[b].available_copies]]
            /\ UNCHANGED response
    /\ UNCHANGED <<books, transactions, now, accounts>>

\* the tests of both handlers: the copies of the loaded row, then (self-service only)
\* the query for an issued transaction of this user on this book
CheckIssue(w) ==
    /\ req[w].pc = "loaded"
    /\ IF req[w].seen <= 0
       THEN /\ req' = [req EXCEPT ![w].pc = "done", ![w].outcome = NoCopies]
            /\ response' = NoCopies
       ELSE IF req[w].kind = "self" /\ Existing(req[w].user, req[w].book)
       THEN /\ req' = [req EXCEPT ![w].pc = "done", ![w].outcome = AlreadyIssued]
            /\ response' = AlreadyIssued
       ELSE /\ req' = [req EXCEPT ![w].pc = "checked"]
            /\ UNCHANGED response
    /\ UNCHANGED <<books, transactions, now, accounts>>

\* the reply of a handler that issued
Issued(kind) == IF kind = "self" THEN IssueConfirmation ELSE BookIssuedTo

\* book.available_copies -= 1; db.session.add(tr); db.session.commit(): the insert
\* and UPDATE book SET available_copies = <the value the handler computed>
CommitIssue(w) ==
    /\ req[w].pc = "checked"
    /\ Len(transactions) < MaxTrans
    /\ transactions' = Append(transactions,
                              NewTransaction(req[w].user, req[w].book, DueDate(now), now))
    /\ books' = [books EXCEPT ![req[w].book].available_copies = IssueAvailable(req[w].seen)]
    /\ req' = [req EXCEPT ![w].pc = "done", ![w].outcome = Issued(req[w].kind)]
    /\ response' = Issued(req[w].kind)
    /\ UNCHANGED <<now, accounts>>

NextConc ==
    \/ \E c \in 1 .. MaxCopies : AddBook(1, "t1", [kind |-> "int", n |-> c])
    \/ \E w \in Workers, a \in UserIds, b \in BookIds : BeginIssueSelf(w, a, b)
    \/ \E w \in Workers, u \in UserIds, b \in BookIds : BeginIssueAdmin(w, 1, u, b)
    \/ \E w \in Workers : CheckIssue(w)
    \/ \E w \in Workers : CommitIssue(w)

SpecConc == Init /\ [][NextConc]_vars

(* ------------------------------- claims -------------------------------- *)
\* C1: every book has available_copies = total_copies - (number of transactions on
\* that book with status "issued"), in every reachable state.
C1_CopyAccounting ==
    \A b \in DOMAIN books :
        books[b].available_copies = books[b].total_copies - IssuedCount(b)

\* C2: every book has 0 <= available_copies <= total_copies, in every reachable state.
C2_CopiesInRange ==
    \A b \in DOMAIN books :
        /\ 0 <= books[b].available_copies
        /\ books[b].available_copies <= books[b].total_copies

\* C2 witness: edit_book has just lowered the total of a book with two copies out
\* below the number out, and the floor has kept available_copies at 0.
C2_Witness ==
    /\ response = BookUpdated
    /\ \E b \in DOMAIN books : /\ books[b].total_copies = 1
                               /\ books[b].available_copies = 0
                               /\ IssuedCount(b) = 2

\* the issued transactions of user u on book b
IssuedTo(u, b) ==
    {t \in TransIds : /\ transactions[t].user_id = u
                      /\ transactions[t].book_id = b
                      /\ transactions[t].status = "issued"}

\* C3: at all times at most one transaction with status "issued" exists for any
\* (user, book) pair, whichever handler issued it.
C3_OneIssuedPerPair ==
    \A u \in UserIds, b \in BookIds : Cardinality(IssuedTo(u, b)) <= 1

\* C4: a returnBook on a transaction that is already "returned" is rejected and
\* mutates nothing: the transaction and the book stay as they were.
C4_SecondReturnRejected ==
    [][\A a \in UserIds, t \in TransIds :
          (/\ transactions[t].status = "returned"
           /\ (Role(a) = "admin" \/ transactions[t].user_id = a)
           /\ ReturnBook(a, t, "POST"))
          => (/\ response' # BookReturned
              /\ transactions' = transactions
              /\ books' = books)]_vars

\* C5: two concurrent issue calls that both read the one available copy of a book
\* never both succeed.
C5_LastCopyIssuedOnce ==
    \A w1, w2 \in Workers :
        (/\ w1 # w2
         /\ req[w1].pc = "done" /\ req[w2].pc = "done"
         /\ req[w1].book = req[w2].book
         /\ req[w1].user # req[w2].user
         /\ req[w1].seen = 1 /\ req[w2].seen = 1)
        => ~(/\ req[w1].outcome \in {IssueConfirmation, BookIssuedTo}
             /\ req[w2].outcome \in {IssueConfirmation, BookIssuedTo})

\* the ledger has one more row, issued to u on b, and b has one copy less; every
\* other row and every other book is as before
IssuedOne(u, b) ==
    /\ Len(transactions') = Len(transactions) + 1
    /\ \A t \in TransIds : transactions'[t] = transactions[t]
    /\ transactions'[Len(transactions')].status = "issued"
    /\ transactions'[Len(transactions')].user_id = u
    /\ transactions'[Len(transactions')].book_id = b
    /\ DOMAIN books' = DOMAIN books
    /\ books'[b].available_copies = books[b].available_copies - 1
    /\ books'[b].total_copies = books[b].total_copies
    /\ \A x \in DOMAIN books \ {b} : books'[x] = books[x]

\* C6: a successful issue creates exactly one "issued" transaction and takes exactly
\* one copy of its book; an issue of a book with available_copies <= 0 answers
\* "No copies available." and changes nothing; on both the self-service and the
\* admin-assisted handler.
C6_Issue ==
    [][/\ \A a \in UserIds, b \in DOMAIN books :
            IssueSelf(a, b, "POST", 0)
            => /\ response' = IssueConfirmation => IssuedOne(a, b)
               /\ response' # IssueConfirmation => UNCHANGED <<books, transactions>>
               /\ books[b].available_copies <= 0
                    => response' = NoCopies /\ UNCHANGED <<books, transactions>>
       /\ \A u \in UserIds, b \in DOMAIN books :
            IssueAdmin(1, [kind |-> "int", n |-> u], [kind |-> "int", n |-> b], "POST", 0)
            => /\ response' = BookIssuedTo => IssuedOne(u, b)
               /\ response' # BookIssuedTo => UNCHANGED <<books, transactions>>
               /\ books[b].available_copies <= 0
                    => response' = NoCopies /\ UNCHANGED <<books, transactions>>]_vars

\* C6 witness: an issue has just been refused for want of copies, on a book whose
\* only copies went out by earlier issues.
C6_Witness ==
    /\ response = NoCopies
    /\ \E b \in DOMAIN books : /\ books[b].available_copies = 0
                               /\ IssuedCount(b) = books[b].total_copies

\* C7: a returnBook by the owner or an admin on an "issued" transaction sets its
\* status to "returned" and its return_date to the time of the request, sets the
\* book's available_copies to min(total_copies, available_copies + 1), and leaves
\* every other book and every other transaction as it was.
C7_Return ==
    [][\A a \in UserIds, t \in TransIds :
          (/\ transactions[t].status = "issued"
           /\ (Role(a) = "admin" \/ transactions[t].user_id = a)
           /\ ReturnBook(a, t, "POST"))
          => LET b == transactions[t].book_id
                 up == books[b].available_copies + 1
             IN  /\ transactions'[t].status = "returned"
                 /\ transactions'[t].return_date = now
                 /\ transactions'[t].return_date # NULL
                 /\ Len(transactions') = Len(transactions)
                 /\ \A x \in TransIds \ {t} : transactions'[x] = transactions[x]
                 /\ DOMAIN books' = DOMAIN books
                 /\ books'[b].available_copies =
                        IF up < books[b].total_copies THEN up ELSE books[b].total_copies
                 /\ books'[b].total_copies = books[b].total_copies
                 /\ \A x \in DOMAIN books \ {b} : books'[x] = books[x]]_vars

\* C7 witness: a return has just succeeded while another book and another, still
\* issued, transaction exist.
C7_Witness ==
    /\ response = BookReturned
    /\ Cardinality(DOMAIN books) = 2
    /\ \E t, x \in TransIds : /\ transactions[t].status = "returned"
                              /\ transactions[x].status = "issued"
                              /\ transactions[x].book_id # transactions[t].book_id

\* C8: the fine of a returned transaction is FINE_PER_DAY times the number of
\* calendar days by which the return date exceeds the due date, 0 when it does not;
\* time of day plays no part.  Of a loan issued on day 0, a return on day 13 or 14
\* costs 0 and a return on day 16 costs 10.
C8_Fine ==
    \A t \in TransIds :
        transactions[t].status = "returned" =>
            LET tr == transactions[t]
                late == Date(tr.return_date) - Date(tr.due_date)
            IN  /\ tr.fine = FINE_PER_DAY * (IF late > 0 THEN late ELSE 0)
                /\ Date(tr.issue_date) = 0 /\ Date(tr.return_date) \in {13, 14}
                        => tr.fine = 0
                /\ Date(tr.issue_date) = 0 /\ Date(tr.return_date) = 16
                        => tr.fine = 10

\* C8 witness: a loan issued on day 0 has been returned on day 16 at a fine of 10.
C8_Witness ==
    \E t \in TransIds : /\ transactions[t].status = "returned"
                        /\ Date(transactions[t].issue_date) = 0
                        /\ Date(transactions[t].return_date) = 16
                        /\ transactions[t].fine = 10

\* C9: deleteBook on a book with an "issued" transaction is refused and leaves the
\* books as they are; deleteBook on a book with no "issued" transaction removes the
\* book, whether or not "returned" transactions reference it.
C9_Delete ==
    [][\A b \in DOMAIN books :
          DeleteBook(1, b)
          => /\ IssuedCount(b) >= 1 => response' = CannotDelete /\ books' = books
             /\ IssuedCount(b) = 0 => response' = BookDeleted /\ b \notin DOMAIN books']_vars

\* C10: a returnBook by a logged-in user who is neither an admin nor the
\* transaction's user answers 403 and leaves the transaction and the books as they
\* were, for a transaction that is issued and for one already returned alike.
C10_ReturnForbidden ==
    [][\A a \in UserIds, t \in TransIds, m \in Methods :
          (/\ Role(a) # "admin"
           /\ transactions[t].user_id # a
           /\ ReturnBook(a, t, m))
          => /\ response' = Forbidden
             /\ transactions' = transactions
             /\ books' = books]_vars

\* C10 witness: a return of an already returned transaction has just been answered
\* 403 (under SpecFine only return_book answers 403).
C10_Witness ==
    /\ response = Forbidden
    /\ \E t \in TransIds : transactions[t].status = "returned"

(* --------------------- one commit of two writes ------------------------ *)
\* SpecAtomic serves one request at a time and splits db.session.commit() of
\* issue_book_to_user and return_book into its statements: the write of the
\* transactions row and the write of the book row are sent inside one database
\* transaction, which then commits, or a statement or the commit raises and the
\* request ends in a 500 with the session rolled back.

OperationalError == "500 OperationalError"

\* the two rows a commit of issue or return writes
Writes == {"row", "book"}

\* the worker that serves the requests when they are served one after the other
Serial == 1

\* return_book, lines 401-404: the lookup and the role/owner test
BeginReturn(w, actor, t) ==
    /\ req[w].pc = "idle"
    /\ IF t \notin TransIds
       THEN /\ req' = [req EXCEPT ![w] = [IdleReq EXCEPT !.pc = "done", !.kind = "return",
                                             !.actor = actor, !.tid = t,
                                             !.outcome = NotFound]]
            /\ response' = NotFound
       ELSE IF ~MayReturn(actor, transactions[t])
       THEN /\ req' = [req EXCEPT ![w] = [IdleReq EXCEPT !.pc = "done", !.kind = "return",
                                             !.actor = actor, !.tid = t,
                                             !.outcome = Forbidden]]
            /\ response' = Forbidden
       ELSE /\ req' = [req EXCEPT ![w] =
                        [IdleReq EXCEPT !.pc = "checked", !.kind = "return",
                                        !.actor = actor, !.tid = t,
                                        !.user = transactions[t].user_id,
                                        !.book = transactions[t].book_id,
                                        !.seen = books[transactions[t].book_id].available_copies]]
            /\ UNCHANGED response
    /\ UNCHANGED <<books, transactions, now, accounts>>

\* one statement of the flush goes to the database, inside the open transaction
FlushWrite(w, wr) ==
    /\ req[w].pc = "checked"
    /\ wr \in Writes \ req[w].staged
    /\ req' = [req EXCEPT ![w].staged = @ \cup {wr}]
    /\ UNCHANGED <<books, transactions, now, response, accounts>>

\* the transactions table with the row write of request r
RowWritten(r) ==
    IF r.kind = "return"
    THEN [transactions EXCEPT ![r.tid] =
            [@ EXCEPT !.return_date = now,
                      !.fine = Fine(now, transactions[r.tid].due_date),
                      !.status = "returned"]]
    ELSE Append(transactions, NewTransaction(r.user, r.book, DueDate(now), now))

\* the book table with the book write of request r
BookWritten(r) ==
    IF r.kind = "return"
    THEN [books EXCEPT ![r.book].available_copies = ReturnAvailable(books[r.book])]
    ELSE [books EXCEPT ![r.book].available_copies = IssueAvailable(r.seen)]

\* the tables after the writes ws of request r have become durable
Durable(r, ws) ==
    /\ transactions' = IF "row" \in ws THEN RowWritten(r) ELSE transactions
    /\ books' = IF "book" \in ws THEN BookWritten(r) ELSE books

\* (mutant) every statement is its own transaction: what was sent stays
RolledBack_Kept(staged) == staged

\* the writes of a failed request that stay in the database: the handlers call
\* commit once, after both writes, so the rollback takes back every statement sent
RolledBack(staged) == {}

\* a statement or the commit raises; nothing catches it in the handler
FailWrite(w) ==
    /\ req[w].pc = "checked"
    /\ Durable(req[w], RolledBack(req[w].staged))
    /\ req' = [req EXCEPT ![w].pc = "done", ![w].outcome = OperationalError]
    /\ response' = OperationalError
    /\ UNCHANGED <<now, accounts>>

\* the reply of a handler that committed
Committed(kind) == IF kind = "return" THEN BookReturned ELSE Issued(kind)

\* db.session.commit() succeeds
CommitWrites(w) ==
    /\ req[w].pc = "checked"
    /\ req[w].staged = Writes
    /\ req[w].kind = "return" \/ Len(transactions) < MaxTrans
    /\ Durable(req[w], Writes)
    /\ req' = [req EXCEPT ![w].pc = "done", ![w].outcome = Committed(req[w].kind)]
    /\ response' = Committed(req[w].kind)
    /\ UNCHANGED <<now, accounts>>

\* the worker is free for the next request
Finish(w) ==
    /\ req[w].pc = "done"
    /\ req' = [req EXCEPT ![w] = IdleReq]
    /\ UNCHANGED <<books, transactions, now, response, accounts>>

NextAtomic ==
    \/ books = << >> /\ \E c \in 1 .. MaxCopies : AddBook(1, "t1", [kind |-> "int", n |-> c])
    \/ \E a \in UserIds, b \in BookIds : BeginIssueSelf(Serial, a, b)
    \/ \E a \in UserIds, t \in 1 .. MaxTrans : BeginReturn(Serial, a, t)
    \/ CheckIssue(Serial)
    \/ \E wr \in Writes : FlushWrite(Serial, wr)
    \/ FailWrite(Serial)
    \/ CommitWrites(Serial)
    \/ Finish(Serial)

SpecAtomic == Init /\ [][NextAtomic]_vars

\* C11: issue and return are atomic over their two rows: no step of the committed
\* tables creates an "issued" transaction without taking the copy, or turns a
\* transaction "returned" without giving the copy back (up to total_copies), or
\* takes a copy of a book without a new transaction; and a
\* request whose write fails leaves the transactions and the books as they were.
C11_Atomic ==
    [][/\ Len(transactions') > Len(transactions)
            => LET tr == transactions'[Len(transactions')]
               IN  /\ tr.status = "issued"
                   /\ books'[tr.book_id].available_copies
                        = books[tr.book_id].available_copies - 1
       /\ \A t \in TransIds :
            transactions[t].status = "issued" /\ transactions'[t].status = "returned"
            => LET b == transactions[t].book_id
                   up == books[b].available_copies + 1
               IN  books'[b].available_copies =
                        IF up < books[b].total_copies THEN up ELSE books[b].total_copies
       /\ \A b \in DOMAIN books :
            books'[b].available_copies < books[b].available_copies
            => Len(transactions') > Len(transactions)
       /\ \A w \in Workers :
            FailWrite(w) => transactions' = transactions /\ books' = books]_vars

\* C11 witness: an issue has failed after the transactions row was sent and before
\* the book row was, and the ledger is still empty and the copy still there.
C11_Witness ==
    \E w \in Workers : /\ req[w].pc = "done"
                       /\ req[w].kind = "self"
                       /\ req[w].outcome = OperationalError
                       /\ req[w].staged = {"row"}
                       /\ transactions = << >>
                       /\ books[req[w].book].available_copies = req[w].seen

\* C16: an edit of a book by an admin that is accepted stores the number of the
\* form as total_copies when it is a number of at least 1, stores
\* max(0, available_copies + (new total - old total)) as available_copies, and
\* changes no transaction and no other book.
C16_EditBook ==
    [][\A b \in BookIds, title \in TitleInputs, raw \in CopiesInputs :
        response' = BookUpdated /\ EditBook(1, b, title, raw)
        => LET moved == books[b].available_copies
                            + (books'[b].total_copies - books[b].total_copies)
           IN  /\ raw.kind = "int" /\ raw.n >= 1 => books'[b].total_copies = raw.n
               /\ books'[b].available_copies = IF moved < 0 THEN 0 ELSE moved
               /\ transactions' = transactions
               /\ \A x \in DOMAIN books \ {b} : books'[x] = books[x]]_vars

\* C16 witness: a book of two copies, both issued, has been edited down to one
\* copy: the available copies stay at the floor 0.
C16_Witness ==
    /\ response = BookUpdated
    /\ \E b \in DOMAIN books : /\ books[b].total_copies = 1
                               /\ books[b].available_copies = 0
                               /\ IssuedCount(b) = 2

\* C17: every book has at least one copy in total.
C17_TotalAtLeastOne == \A b \in DOMAIN books : books[b].total_copies >= 1

\* C17 witness: the catalog holds a book the import stored for a row of status
\* "issued" (one copy in total, none available, no loan in the ledger) next to a
\* book added through the form.
C17_Witness ==
    /\ response = ImportDone
    /\ \E b \in DOMAIN books : /\ books[b].total_copies = 1
                               /\ books[b].available_copies = 0
                               /\ BookTransactions(b) = {}
    /\ \E b \in DOMAIN books : books[b].available_copies = MaxCopies

\* C20: no step removes a transaction or turns a returned transaction back to
\* issued, and a step that adds a transaction leaves every existing one as it was.
C20_ReturnedTerminal ==
    [][/\ Len(transactions') >= Len(transactions)
       /\ \A t \in TransIds :
            transactions[t].status = "returned" => transactions'[t].status = "returned"
       /\ Len(transactions') > Len(transactions)
            => /\ Len(transactions') = Len(transactions) + 1
               /\ \A t \in TransIds : transactions'[t] = transactions[t]]_vars

\* C20 witness: the user's first loan of the book is returned and a second loan of
\* the same book to the same user is a new, issued transaction.
C20_Witness ==
    /\ Len(transactions) = 2
    /\ transactions[1].status = "returned"
    /\ transactions[2].status = "issued"
    /\ transactions[2].user_id = transactions[1].user_id
    /\ transactions[2].book_id = transactions[1].book_id

\* C18: every transaction's status is "issued" or "returned", and a request for
\* the dashboard, which counts the overdue loans, changes no transaction and no
\* book.
C18_StatusValues ==
    /\ [](\A t \in TransIds : transactions[t].status \in {"issued", "returned"})
    /\ [][\A a \in Principals :
            AdminDashboard(a) => transactions' = transactions /\ books' = books]_vars

\* C18 witness: the dashboard has counted one overdue loan, whose status is still
\* "issued".
C18_Witness ==
    /\ response = DashboardPage(1)
    /\ Len(transactions) = 1
    /\ transactions[1].status = "issued"
    /\ transactions[1].due_date < now

\* C19: the due date of every transaction is its issue date plus DUE_DAYS days
\* exactly.
C19_DueDate ==
    \A t \in TransIds :
        transactions[t].due_date = transactions[t].issue_date + DUE_DAYS * TicksPerDay

(* ------------------------------ accounts ------------------------------- *)
MaxUsers == 4

\* form fields of register and login
UsernameInputs == {"", "u2", " u2 ", "new", "u2@x"}
EmailInputs == {"", "U2@X", "new@x", " New@X ", "n2@x"}
PasswordInputs == {"", "p", "q"}
LoginNames == {"", "admin", "u2", "u2@x", "U2@X", "u3", "new", "nobody"}

\* str.strip() on the strings of the forms
Strip(s) == IF s = " u2 " THEN "u2" ELSE IF s = " New@X " THEN "New@X" ELSE s

\* str.lower() on the strings of the forms
Lower(s) == IF s = "U2@X" THEN "u2@x" ELSE IF s = "New@X" THEN "new@x" ELSE s

RequiredFields == "Username, password, and email are required."
UsernameTaken == "Username is already taken."
EmailRegistered == "Email is already registered."
RegistrationSuccessful == "Registration successful!"
CredentialsRequired == "Username and password are required."
InvalidCredentials == "Invalid credentials."
AccountInactive == "Account inactive. Contact admin."
LoggedIn == "Logged in successfully."
LoggedOut == "Logged out."
CannotDeactivate == "Cannot deactivate admin."
UserStatusUpdated == "User status updated."

\* User.query.filter_by(username=name).first(): the row ids with that username
ByUsername(name) == {u \in DOMAIN users : users[u].username = name}

\* User.query.filter_by(email=email).first(): the row ids with that email
ByEmail(email) == {u \in DOMAIN users : users[u].email = email}

\* the id SQLite gives the next row of table users
NextUserId == SetMax(DOMAIN users) + 1

\* (mutant) the email of the form is compared and stored as it was typed
FormEmail_AsTyped(raw) == Strip(raw)

\* register: email = (form 'email' or '').strip().lower()
FormEmail(raw) == Lower(Strip(raw))

\* register, POST
Register(rawName, rawPassword, rawEmail) ==
    LET username == Strip(rawName)
        password == Strip(rawPassword)
        email == FormEmail(rawEmail)
    IN  IF username = "" \/ password = "" \/ email = "" THEN Reply(RequiredFields)
        ELSE IF ByUsername(username) # {} THEN Reply(UsernameTaken)
        ELSE IF ByEmail(email) # {} THEN Reply(EmailRegistered)
        ELSE /\ Cardinality(DOMAIN users) < MaxUsers
             /\ users' = (NextUserId :> [username |-> username,
                                         email |-> email,
                                         password_hash |-> PasswordHash(password),
                                         active |-> TRUE])
                         @@ users
             /\ response' = RegistrationSuccessful
             /\ UNCHANGED <<books, transactions, now, req, sessions>>

\* login: the user the form's username names: by username, else by lower-cased email
Lookup(username) ==
    IF ByUsername(username) # {} THEN ByUsername(username)
    ELSE ByEmail(Lower(username))

\* check_password_hash(user.password_hash, password)
CheckPasswordHash(hash, password) == hash = PasswordHash(password)

\* (mutant) login does not look at the active flag
AccountActive_Always(user) == TRUE

\* login: user.active
AccountActive(user) == user.active

\* login, POST
Login(rawName, rawPassword) ==
    LET username == Strip(rawName)
        password == Strip(rawPassword)
    IN  IF username = "" \/ password = "" THEN Reply(CredentialsRequired)
        ELSE IF Lookup(username) = {} THEN Reply(InvalidCredentials)
        ELSE LET u == CHOOSE x \in Lookup(username) : TRUE
             IN  IF ~CheckPasswordHash(users[u].password_hash, password)
                 THEN Reply(InvalidCredentials)
                 ELSE IF ~AccountActive(users[u]) THEN Reply(AccountInactive)
                 ELSE /\ sessions' = sessions \cup {u}
                      /\ response' = LoggedIn
                      /\ UNCHANGED <<books, transactions, now, req, users>>

\* logout
Logout(actor) ==
    IF actor = Anonymous THEN Reply(LoginRedirect)
    ELSE /\ sessions' = sessions \ {actor}
         /\ response' = LoggedOut
         /\ UNCHANGED <<books, transactions, now, req, users>>

\* (mutant) toggle_user without @admin_required
ToggleUser_Open(actor, u) ==
    IF actor = Anonymous THEN Reply(LoginRedirect)
    ELSE IF u \notin DOMAIN users THEN Reply(NotFound)
    ELSE IF Role(u) = "admin" THEN Reply(CannotDeactivate)
    ELSE /\ users' = [users EXCEPT ![u].active = ~users[u].active]
         /\ response' = UserStatusUpdated
         /\ UNCHANGED <<books, transactions, now, req, sessions>>

\* (mutant) toggle_user without the test of the target's role
ToggleUser_AnyTarget(actor, u) ==
    IF actor = Anonymous THEN Reply(LoginRedirect)
    ELSE IF Role(actor) # "admin" THEN Reply(Forbidden)
    ELSE IF u \notin DOMAIN users THEN Reply(NotFound)
    ELSE /\ users' = [users EXCEPT ![u].active = ~users[u].active]
         /\ response' = UserStatusUpdated
         /\ UNCHANGED <<books, transactions, now, req, sessions>>

\* toggle_user
ToggleUser(actor, u) ==
    IF actor = Anonymous THEN Reply(LoginRedirect)
    ELSE IF Role(actor) # "admin" THEN Reply(Forbidden)
    ELSE IF u \notin DOMAIN users THEN Reply(NotFound)
    ELSE IF Role(u) = "admin" THEN Reply(CannotDeactivate)
    ELSE /\ users' = [users EXCEPT ![u].active = ~users[u].active]
         /\ response' = UserStatusUpdated
         /\ UNCHANGED <<books, transactions, now, req, sessions>>

\* the principal of a request: nobody, or a user who has logged in
Current == sessions \cup {Anonymous}

NextAccounts ==
    \/ \E n \in UsernameInputs, p \in PasswordInputs, e \in EmailInputs : Register(n, p, e)
    \/ \E n \in LoginNames, p \in PasswordInputs : Login(n, p)
    \/ \E a \in Current : Logout(a)
    \/ \E a \in Current, u \in 1 .. MaxUsers : ToggleUser(a, u)

SpecAccounts == Init /\ [][NextAccounts]_vars

\* C12: usernames are unique and emails are unique without regard to case, and a
\* registration that names all three fields with the username of a user, or with an
\* email that is a user's email up to case, is refused as taken and stores no user.
C12_Register ==
    /\ [](\A u, v \in DOMAIN users :
            u # v => /\ users[u].username # users[v].username
                     /\ Lower(users[u].email) # Lower(users[v].email))
    /\ [][\A n \in UsernameInputs, p \in PasswordInputs, e \in EmailInputs :
            /\ Strip(n) # "" /\ Strip(p) # "" /\ Strip(e) # ""
            /\ \E u \in DOMAIN users : \/ users[u].username = Strip(n)
                                       \/ Lower(users[u].email) = Lower(Strip(e))
            /\ Register(n, p, e)
            => /\ users' = users
               /\ response' \in {UsernameTaken, EmailRegistered}]_vars

\* C12 witness: after one registration, a registration with a registered email has
\* just been refused.
C12_Witness ==
    /\ response = EmailRegistered
    /\ Cardinality(DOMAIN users) = Cardinality(UserIds) + 1

\* C14: every admin account is active, a request to toggle an admin's account
\* changes no user, and an admin's request to toggle the account of a user who is
\* not an admin negates that user's active flag and changes nothing else.
C14_Toggle ==
    /\ [](\A u \in DOMAIN users : Role(u) = "admin" => users[u].active)
    /\ [][\A a \in Principals, u \in 1 .. MaxUsers :
            ToggleUser(a, u)
            => IF a # Anonymous /\ Role(a) = "admin" /\ u \in DOMAIN users
                  /\ Role(u) # "admin"
               THEN /\ users' = [users EXCEPT ![u].active = ~users[u].active]
                    /\ UNCHANGED <<books, transactions, sessions>>
               ELSE UNCHANGED <<users, books, transactions, sessions>>]_vars

\* C14 witness: the admin has deactivated user 2 and has then been refused the
\* toggle of an admin account, which is still active.
C14_Witness ==
    /\ response = CannotDeactivate
    /\ users[1].active
    /\ ~users[2].active

\* C15: a login adds a session only for the user the name of the form finds, by
\* username, or by lower-cased email when no user has that username, and only when
\* the password matches the stored hash and the account is active; it does so
\* whenever all of that holds, and no other step but a login adds a session.
C15_Login ==
    [][/\ \A n \in LoginNames, p \in PasswordInputs :
            Login(n, p)
            => LET name == Strip(n)
                   found == {u \in DOMAIN users :
                                \/ users[u].username = name
                                \/ /\ \A v \in DOMAIN users : users[v].username # name
                                   /\ users[u].email = Lower(name)}
                   admitted == {u \in found :
                                   /\ name # "" /\ Strip(p) # ""
                                   /\ users[u].password_hash = PasswordHash(Strip(p))
                                   /\ users[u].active}
               IN  /\ sessions' = sessions \cup admitted
                   /\ users' = users
       /\ \A u \in sessions' \ sessions : users[u].active /\ response' = LoggedIn]_vars

\* C15 witness: the login of a deactivated user has just been refused and the user
\* has no session.
C15_Witness ==
    /\ response = AccountInactive
    /\ \E u \in DOMAIN users : ~users[u].active /\ u \notin sessions

(* ------------------------- admin-only handlers ------------------------- *)
\* report
Report(actor) ==
    IF actor = Anonymous THEN Reply(LoginRedirect)
    ELSE IF Role(actor) # "admin" THEN Reply(Forbidden)
    ELSE Reply(PageRendered)

\* a form field that holds the number k
Number(k) == [kind |-> "int", n |-> k]

\* a request of principal a to one of the handlers under @admin_required
AdminRequest(a) ==
    \/ \E c \in 1 .. MaxCopies : AddBook(a, "t1", Number(c))
    \/ \E b \in BookIds, c \in 1 .. MaxCopies : EditBook(a, b, "t1", Number(c))
    \/ \E b \in BookIds : DeleteBook(a, b)
    \/ \E u \in UserIds, b \in BookIds : IssueAdmin(a, Number(u), Number(b), "POST", 0)
    \/ \E u \in UserIds : ToggleUser(a, u)
    \/ Report(a)
    \/ AdminDashboard(a)

\* SpecAdmin: every principal sends requests to the admin-only handlers.
NextAdmin ==
    \/ \E a \in Principals, c \in 1 .. MaxCopies : AddBook(a, "t1", Number(c))
    \/ \E a \in Principals, b \in BookIds, c \in 1 .. MaxCopies :
         EditBook(a, b, "t1", Number(c))
    \/ \E a \in Principals, b \in BookIds : DeleteBook(a, b)
    \/ \E a \in Principals, u \in UserIds, b \in BookIds :
         IssueAdmin(a, Number(u), Number(b), "POST", 0)
    \/ \E a \in Principals, u \in UserIds : ToggleUser(a, u)
    \/ \E a \in Principals : Report(a)
    \/ \E a \in Principals : AdminDashboard(a)

SpecAdmin == Init /\ [][NextAdmin]_vars

\* C13 (as stated): a request to an admin-only handler by a principal who is not an
\* admin, or by no principal, is answered 403 and changes no book, user or
\* transaction.
C13_AllForbidden ==
    [][\A a \in Principals :
        (a = Anonymous \/ Role(a) # "admin") /\ AdminRequest(a)
        => /\ response' = Forbidden
           /\ UNCHANGED <<books, users, transactions>>]_vars

\* C13 (amended): a request to an admin-only handler by a logged-in principal who
\* is not an admin is answered 403, a request by no principal is answered with the
\* redirect to the login page, and neither changes a book, a user or a transaction.
C13_AdminOnly ==
    [][\A a \in Principals :
        (a = Anonymous \/ Role(a) # "admin") /\ AdminRequest(a)
        => /\ response' = IF a = Anonymous THEN LoginRedirect ELSE Forbidden
           /\ UNCHANGED <<books, users, transactions>>]_vars

\* C13 witness: with a book, a loan and a deactivated user in the database, a
\* request of a user who is not an admin has just been answered 403.
C13_Witness ==
    /\ response = Forbidden
    /\ books # << >>
    /\ transactions # << >>
    /\ \E u \in DOMAIN users : ~users[u].active

\* C21: for every book, the number of its transactions with status "issued" is at
\* most its total_copies.
C21_LoansWithinTotal ==
    \A b \in DOMAIN books : IssuedCount(b) <= books[b].total_copies

\* C22: a transaction with status "issued" has no return_date and fine 0, a
\* transaction with status "returned" has a return_date and a fine of at least 0,
\* and a transaction without a return_date is "issued".
C22_ReturnFields ==
    \A t \in TransIds :
        /\ transactions[t].status = "issued"
              => transactions[t].return_date = NULL /\ transactions[t].fine = 0
        /\ transactions[t].status = "returned"
              => transactions[t].return_date # NULL /\ transactions[t].fine >= 0
        /\ transactions[t].return_date = NULL => transactions[t].status = "issued"

\* C22 witness: a loan has been returned after its due date: it has a return_date
\* and a fine above 0.
C22_Witness ==
    /\ Len(transactions) = 1
    /\ transactions[1].status = "returned"
    /\ transactions[1].return_date > transactions[1].due_date
    /\ transactions[1].fine > 0

(* --------------------- requests of logged-in users --------------------- *)
\* load_user: the principal of a request that carries the session of user_id
LoadUser(user_id) == IF user_id \in DOMAIN users THEN user_id ELSE Anonymous

\* SpecSession: the principal of every request is a user who has logged in and not
\* logged out, or nobody.  The admin adds the book and toggles accounts; the users
\* issue and return.
NextSession ==
    \/ \E s \in Current, c \in 1 .. MaxCopies :
         books = << >> /\ AddBook(LoadUser(s), "t1", Number(c))
    \/ \E n \in LoginNames, p \in PasswordInputs : Login(n, p)
    \/ \E s \in Current : Logout(LoadUser(s))
    \/ \E s \in Current, u \in UserIds : ToggleUser(LoadUser(s), u)
    \/ \E s \in Current, b \in BookIds : IssueSelf(LoadUser(s), b, "POST", 0)
    \/ \E s \in Current, t \in 1 .. MaxTrans :
         Role(s) # "admin" /\ ReturnBook(LoadUser(s), t, "POST")

SpecSession == Init /\ [][NextSession]_vars

\* C23: while a user's account is deactivated, no issue and no return that the user
\* requests succeeds: the request is refused and the ledger and the books stay as
\* they were.
C23_DeactivatedBlocked ==
    [][\A a \in UserIds :
        ~users[a].active
        => /\ \A b \in BookIds :
                IssueSelf(a, b, "POST", 0)
                => response' # IssueConfirmation /\ transactions' = transactions
           /\ \A t \in 1 .. MaxTrans :
                ReturnBook(a, t, "POST")
                => response' # BookReturned /\ transactions' = transactions]_vars

=============================================================================
